---- MODULE Spec2Model ----
(***************************************************************************)
(* Order normalisation and EIP-712 order signing of src/src/signer.py.     *)
(*                                                                         *)
(* Python numbers are modelled by what they are:                           *)
(*   - int   : an arbitrary-precision integer, here a sign and a magnitude *)
(*             held as a little-endian sequence of limbs (zero is << >>);  *)
(*   - float : an IEEE-754 binary64 value, here sign, 53-bit mantissa and  *)
(*             binary exponent; every operation rounds to nearest, ties to *)
(*             even, exactly as the hardware does;                         *)
(*   - str   : a sequence of one-character strings.                        *)
(***************************************************************************)
EXTENDS Integers, Sequences, FiniteSets, TLC

----------------------------------------------------------------------------
(* Magnitudes of Python ints: little-endian limb sequences, no high zero.  *)

Base == 10000

Max(a, b) == IF a >= b THEN a ELSE b
Min(a, b) == IF a <= b THEN a ELSE b

RECURSIVE Pow(_, _)
Pow(b, n) == IF n = 0 THEN 1 ELSE b * Pow(b, n - 1)

(* the limbs of a without high zeros *)
BTrim(a) ==
    LET nz == {i \in 1..Len(a) : a[i] # 0}
    IN  IF nz = {} THEN << >>
        ELSE SubSeq(a, 1, CHOOSE i \in nz : \A j \in nz : j <= i)

BFromNat(n) == BTrim(<<n % Base, (n \div Base) % Base, n \div (Base * Base)>>)

Limb(a, i) == IF i <= Len(a) THEN a[i] ELSE 0

(* The limb loops below run over the positions i..j by halves, handing the *)
(* carry from the half done first to the other.  The test on that carry is *)
(* always true: it makes TLC finish the first half before it starts the     *)
(* other, which keeps the evaluation shallow.                              *)
RECURSIVE BAddSeg(_, _, _, _, _)
BAddSeg(a, b, i, j, c) ==
    IF i > j THEN [d |-> << >>, c |-> c]
    ELSE IF i = j
    THEN LET x == Limb(a, i) + Limb(b, i) + c
         IN  [d |-> <<x % Base>>, c |-> x \div Base]
    ELSE LET mid == (i + j) \div 2
             lo  == BAddSeg(a, b, i, mid, c)
         IN  IF lo.c < 0 THEN lo
             ELSE LET hi == BAddSeg(a, b, mid + 1, j, lo.c)
                  IN  [d |-> lo.d \o hi.d, c |-> hi.c]

(* the limbs r.d with the carry r.c out of the top limb appended *)
BWithCarry(r) == BTrim(r.d \o BFromNat(r.c))

BAdd(a, b) == BWithCarry(BAddSeg(a, b, 1, Max(Len(a), Len(b)), 0))

RECURSIVE BSubSeg(_, _, _, _, _)
BSubSeg(a, b, i, j, c) ==
    IF i > j THEN [d |-> << >>, c |-> c]
    ELSE IF i = j
    THEN LET x == Limb(a, i) - Limb(b, i) - c
         IN  [d |-> <<(x + Base) % Base>>, c |-> IF x < 0 THEN 1 ELSE 0]
    ELSE LET mid == (i + j) \div 2
             lo  == BSubSeg(a, b, i, mid, c)
         IN  IF lo.c < 0 THEN lo
             ELSE LET hi == BSubSeg(a, b, mid + 1, j, lo.c)
                  IN  [d |-> lo.d \o hi.d, c |-> hi.c]

(* a - b for a >= b *)
BSub(a, b) == BTrim(BSubSeg(a, b, 1, Len(a), 0).d)

(* -1, 0, 1 as a < b, a = b, a > b *)
BCmp(a, b) ==
    IF Len(a) < Len(b) THEN -1
    ELSE IF Len(a) > Len(b) THEN 1
    ELSE LET df == {i \in 1..Len(a) : a[i] # b[i]}
         IN  IF df = {} THEN 0
             ELSE LET top == CHOOSE i \in df : \A j \in df : j <= i
                  IN  IF a[top] < b[top] THEN -1 ELSE 1

RECURSIVE BMulSmallSeg(_, _, _, _, _)
BMulSmallSeg(a, k, i, j, c) ==
    IF i > j THEN [d |-> << >>, c |-> c]
    ELSE IF i = j
    THEN LET x == a[i] * k + c
         IN  [d |-> <<x % Base>>, c |-> x \div Base]
    ELSE LET mid == (i + j) \div 2
             lo  == BMulSmallSeg(a, k, i, mid, c)
         IN  IF lo.c < 0 THEN lo
             ELSE LET hi == BMulSmallSeg(a, k, mid + 1, j, lo.c)
                  IN  [d |-> lo.d \o hi.d, c |-> hi.c]

(* a * k for 0 <= k <= 2^17 *)
BMulSmall(a, k) == BWithCarry(BMulSmallSeg(a, k, 1, Len(a), 0))

BShift(a, n) == IF a = << >> THEN a ELSE [i \in 1..n |-> 0] \o a

RECURSIVE BMulSeg(_, _, _, _)
BMulSeg(a, b, i, j) ==
    IF i = j THEN BMulSmall(a, b[i])
    ELSE LET mid == (i + j) \div 2
         IN  BAdd(BMulSeg(a, b, i, mid), BShift(BMulSeg(a, b, mid + 1, j), mid + 1 - i))

BMul(a, b) == IF a = << >> \/ b = << >> THEN << >> ELSE BMulSeg(a, b, 1, Len(b))

RECURSIVE BDivSeg(_, _, _, _, _)
(* quotient limbs i..j and remainder of a by k, 1 <= k <= 2^17, high limbs first *)
BDivSeg(a, k, i, j, r) ==
    IF i > j THEN [d |-> << >>, r |-> r]
    ELSE IF i = j
    THEN LET cur == r * Base + a[i]
         IN  [d |-> <<cur \div k>>, r |-> cur % k]
    ELSE LET mid == (i + j) \div 2
             hi  == BDivSeg(a, k, mid + 1, j, r)
         IN  IF hi.r < 0 THEN hi
             ELSE LET lo == BDivSeg(a, k, i, mid, hi.r)
                  IN  [d |-> lo.d \o hi.d, r |-> lo.r]

BDivSmall(a, k) == BTrim(BDivSeg(a, k, 1, Len(a), 0).d)

RECURSIVE BPow2Calc(_)
BPow2Calc(n) ==
    IF n <= 17 THEN BFromNat(Pow(2, n))
    ELSE BMul(BPow2Calc(n \div 2), BPow2Calc(n - (n \div 2)))

(* 2^n; the powers used most are computed once *)
Pow2Table == [n \in 0..160 |-> BPow2Calc(n)]
BPow2(n) == IF n <= 160 THEN Pow2Table[n] ELSE BPow2Calc(n)

BMulPow2(a, n) == IF n = 0 THEN a ELSE BMul(a, BPow2(n))

RECURSIVE BDivPow2(_, _)
(* floor(a / 2^n), by floor(floor(a / x) / y) = floor(a / (x * y)) *)
BDivPow2(a, n) ==
    IF n = 0 \/ a = << >> THEN a
    ELSE IF n <= 17 THEN BDivSmall(a, Pow(2, n))
    ELSE BDivPow2(BDivPow2(a, n \div 2), n - (n \div 2))

BMulPow10(a, n) == BShift(BMulSmall(a, Pow(10, n % 4)), n \div 4)

BDivPow10(a, n) ==
    LET drop == Min(n \div 4, Len(a))
    IN  BDivSmall(SubSeq(a, drop + 1, Len(a)), Pow(10, n % 4))

BOne == <<1>>
BPow10(n) == BMulPow10(BOne, n)
BIsOdd(a) == a # << >> /\ a[1] % 2 = 1

RECURSIVE NatBitLen(_)
NatBitLen(n) == IF n = 0 THEN 0 ELSE 1 + NatBitLen(n \div 2)

RECURSIVE BBitLenIn(_, _, _)
(* the b in lo..hi with 2^(b-1) <= a < 2^b *)
BBitLenIn(a, lo, hi) ==
    IF lo = hi THEN lo
    ELSE LET mid == (lo + hi) \div 2
         IN  IF BCmp(a, BPow2(mid)) < 0 THEN BBitLenIn(a, lo, mid)
             ELSE BBitLenIn(a, mid + 1, hi)

(* the number of bits of a: with t the top limb of L, a lies between       *)
(* t * Base^(L-1) and (t+1) * Base^(L-1), and log2(Base) = 13.2877..       *)
BBitLen(a) ==
    IF a = << >> THEN 0
    ELSE LET est == NatBitLen(a[Len(a)]) + ((Len(a) - 1) * 132877) \div 10000
         IN  BBitLenIn(a, est, est + 2)

(* floor of a / (10^p10 * 2^s); a negative s multiplies *)
BFloorDiv(a, p10, s) ==
    IF s < 0 THEN BDivPow10(BMulPow2(a, -s), p10)
    ELSE BDivPow2(BDivPow10(a, p10), s)

(* a / (10^p10 * 2^s) rounded to the nearest integer, ties to even *)
(* the quotient q = floor(n / den) rounded by c, the comparison of twice   *)
(* the remainder with den                                                  *)
BRoundUp(q, c) == IF c > 0 \/ (c = 0 /\ BIsOdd(q)) THEN BAdd(q, BOne) ELSE q
BRoundQuot(n, den, q) == BRoundUp(q, BCmp(BMulSmall(BSub(n, BMul(q, den)), 2), den))
BRoundDiv(a, p10, s) ==
    BRoundQuot(IF s < 0 THEN BMulPow2(a, -s) ELSE a,
               BMulPow2(BPow10(p10), Max(s, 0)),
               BFloorDiv(a, p10, s))

----------------------------------------------------------------------------
(* Python float: IEEE-754 binary64.  A finite value is (-1)^neg * m * 2^e   *)
(* with 2^52 <= m < 2^53 (zero has m = << >>).  Values below the normal    *)
(* range are not produced by the inputs considered and are not modelled.   *)

MantBits == 53
MaxExp == 971

FZero(neg) == [k |-> "fin", neg |-> neg, m |-> << >>, e |-> 0]
FInf(neg)  == [k |-> "inf", neg |-> neg, m |-> << >>, e |-> 0]
FNaN       == [k |-> "nan", neg |-> FALSE, m |-> << >>, e |-> 0]

TwoMant == BPow2(MantBits)

(* m * 2^e with m of at most MantBits + 1 bits, as a double *)
FFin(neg, m, e) ==
    IF e > MaxExp THEN FInf(neg) ELSE [k |-> "fin", neg |-> neg, m |-> m, e |-> e]
FPack(neg, m, e) ==
    IF BCmp(m, TwoMant) = 0 THEN FFin(neg, BPow2(MantBits - 1), e + 1)
    ELSE FFin(neg, m, e)

(* the double nearest to a / (10^p10 * 2^s), ties to even *)
(* t0 scales the quotient to MantBits or MantBits + 1 bits, t to MantBits  *)
FNearestAt(neg, a, p10, s, t) == FPack(neg, BRoundDiv(a, p10, s - t), -t)
FNearestFrom(neg, a, p10, s, t0) ==
    FNearestAt(neg, a, p10, s, t0 + (MantBits - BBitLen(BFloorDiv(a, p10, s - t0))))
FNearest(neg, a, p10, s) ==
    IF a = << >> THEN FZero(neg)
    ELSE FNearestFrom(neg, a, p10, s,
                      MantBits - ((BBitLen(a) - s) - BBitLen(BPow10(p10))))

(* x * y: the exact product of the mantissas, rounded to MantBits bits *)
FMulShift(neg, p, e, sh) == FPack(neg, BRoundDiv(p, 0, sh), e + sh)
FMulMant(neg, p, e) == FMulShift(neg, p, e, BBitLen(p) - MantBits)
FMul(x, y) ==
    LET neg == (x.neg /\ ~y.neg) \/ (~x.neg /\ y.neg)
        zx  == x.k = "fin" /\ x.m = << >>
        zy  == y.k = "fin" /\ y.m = << >>
    IN  IF x.k = "nan" \/ y.k = "nan" THEN FNaN
        ELSE IF x.k = "inf" \/ y.k = "inf"
             THEN (IF zx \/ zy THEN FNaN ELSE FInf(neg))
        ELSE IF zx \/ zy THEN FZero(neg)
        ELSE FMulMant(neg, BMul(x.m, y.m), x.e + y.e)

(* x < y and x <= y; every comparison with nan is false *)
FKey(x) == IF x.k = "inf" THEN 2 ELSE IF x.m = << >> THEN 0 ELSE 1
FMagCmp(x, y) ==
    IF FKey(x) # FKey(y) THEN (IF FKey(x) < FKey(y) THEN -1 ELSE 1)
    ELSE IF FKey(x) # 1 THEN 0
    ELSE LET lo == Min(x.e, y.e)
         IN  BCmp(BMulPow2(x.m, x.e - lo), BMulPow2(y.m, y.e - lo))
FCmp(x, y) ==
    LET sx == IF FKey(x) = 0 THEN 0 ELSE IF x.neg THEN -1 ELSE 1
        sy == IF FKey(y) = 0 THEN 0 ELSE IF y.neg THEN -1 ELSE 1
    IN  IF sx # sy THEN (IF sx < sy THEN -1 ELSE 1)
        ELSE IF sx = 0 THEN 0
        ELSE sx * FMagCmp(x, y)
FLt(x, y) == x.k # "nan" /\ y.k # "nan" /\ FCmp(x, y) < 0
FLe(x, y) == x.k # "nan" /\ y.k # "nan" /\ FCmp(x, y) <= 0

(* Python ints: sign and magnitude *)
PyInt(neg, mag) == [neg |-> neg /\ mag # << >>, mag |-> mag]
IntOf(n) == PyInt(n < 0, BFromNat(IF n < 0 THEN -n ELSE n))
IntMul(a, b) == PyInt((a.neg /\ ~b.neg) \/ (~a.neg /\ b.neg), BMul(a.mag, b.mag))
IntPow10(n) == PyInt(FALSE, BPow10(n))
IntToFloat(i) == FNearest(i.neg, i.mag, 0, 0)

(* round(x, ndigits): the decimal with ndigits places nearest to the exact *)
(* binary value of x (ties to even), converted back to the nearest double  *)
PyRoundN(x, nd) ==
    IF x.k # "fin" \/ x.e >= 0 THEN x      \* inf, nan and integers are kept
    ELSE FNearest(x.neg, BRoundDiv(BMulPow10(x.m, nd), 0, -x.e), nd, 0)

(* int(round(x)): the integer nearest to x, ties to even; inf and nan raise *)
PyRoundInt(x) ==
    IF x.k = "inf" THEN [err |-> "OverflowError", v |-> IntOf(0)]
    ELSE IF x.k = "nan" THEN [err |-> "ValueError", v |-> IntOf(0)]
    ELSE [err |-> "none", v |-> PyInt(x.neg, BRoundDiv(x.m, 0, -x.e))]

(* a float written as the decimal literal (-1)^neg * n * 10^k, or inf/nan  *)
Lit(n, k) == [sp |-> "fin", neg |-> n < 0, n |-> IF n < 0 THEN -n ELSE n, k |-> k]
LitInf == [sp |-> "inf", neg |-> FALSE, n |-> 0, k |-> 0]
LitNaN == [sp |-> "nan", neg |-> FALSE, n |-> 0, k |-> 0]
FromLiteral(l) ==
    IF l.sp = "inf" THEN FInf(l.neg)
    ELSE IF l.sp = "nan" THEN FNaN
    ELSE FNearest(l.neg, BMulPow10(BFromNat(l.n), Max(l.k, 0)), Max(-l.k, 0), 0)

----------------------------------------------------------------------------
(* Python str: a sequence of one-character strings.                        *)

DigitChars == <<"0", "1", "2", "3", "4", "5", "6", "7", "8", "9">>
LowerChars == <<"a", "b", "c", "d", "e", "f", "g", "h", "i", "j", "k", "l", "m",
                "n", "o", "p", "q", "r", "s", "t", "u", "v", "w", "x", "y", "z">>
UpperChars == <<"A", "B", "C", "D", "E", "F", "G", "H", "I", "J", "K", "L", "M",
                "N", "O", "P", "Q", "R", "S", "T", "U", "V", "W", "X", "Y", "Z">>

IndexIn(chars, c) ==
    IF \E i \in DOMAIN chars : chars[i] = c
    THEN CHOOSE i \in DOMAIN chars : chars[i] = c
    ELSE 0

(* s.upper() *)
StrUpper(s) ==
    [i \in DOMAIN s |->
        IF IndexIn(LowerChars, s[i]) > 0 THEN UpperChars[IndexIn(LowerChars, s[i])]
        ELSE s[i]]

(* str(i) for a Python int: decimal digits, most significant first *)
MagStr(a) ==
    IF a = << >> THEN <<"0">>
    ELSE LET n     == Len(a)
             topw  == IF a[n] >= 1000 THEN 4 ELSE IF a[n] >= 100 THEN 3
                      ELSE IF a[n] >= 10 THEN 2 ELSE 1
             total == 4 * (n - 1) + topw
         IN  [p \in 1..total |->
                LET q == total - p
                IN  DigitChars[((a[(q \div 4) + 1] \div Pow(10, q % 4)) % 10) + 1]]

Str(i) == (IF i.neg THEN <<"-">> ELSE << >>) \o MagStr(i.mag)

(* int(s) for a str: an optional sign and decimal digits, or ValueError    *)
(* (surrounding blanks and underscores, which int() also takes, do not     *)
(* occur in the inputs considered)                                         *)
IsDigits(d) == d # << >> /\ \A i \in DOMAIN d : IndexIn(DigitChars, d[i]) > 0

DigitsMag(d) ==
    LET n == Len(d)
        v(q) == IF q < n THEN IndexIn(DigitChars, d[n - q]) - 1 ELSE 0
    IN  BTrim([j \in 1..((n + 3) \div 4) |->
                  v(4 * j - 4) + 10 * v(4 * j - 3) + 100 * v(4 * j - 2)
                    + 1000 * v(4 * j - 1)])

ParseInt(s) ==
    LET signed == s # << >> /\ s[1] \in {"+", "-"}
        d      == IF signed THEN Tail(s) ELSE s
    IN  IF IsDigits(d)
        THEN [err |-> "none", v |-> PyInt(signed /\ s[1] = "-", DigitsMag(d))]
        ELSE [err |-> "ValueError", v |-> IntOf(0)]

----------------------------------------------------------------------------
(* class Order                                                             *)

USDC_DECIMALS == 6

BUY  == <<"B", "U", "Y">>
SELL == <<"S", "E", "L", "L">>
(* Optional[int]: None, or <<n>> for the int n *)
None == << >>

F0 == FZero(FALSE)
F1 == IntToFloat(IntOf(1))

(* 10**n as the float an int becomes when it is multiplied with a float *)
Pow10Float == [n \in 0..USDC_DECIMALS |-> IntToFloat(IntPow10(n))]

(* int(round(x * 10**up)) * 10**down *)
TimesPow10(r, down) == [err |-> r.err, v |-> IntMul(r.v, IntPow10(down))]
BaseUnits(x, up, down) == TimesPow10(PyRoundInt(FMul(x, Pow10Float[up])), down)

(* the two assignments self.maker_amount = str(..), self.taker_amount = str(..) *)
Amounts(maker, taker) ==
    IF maker.err # "none" THEN [err |-> maker.err, maker_amount |-> << >>, taker_amount |-> << >>]
    ELSE IF taker.err # "none" THEN [err |-> taker.err, maker_amount |-> << >>, taker_amount |-> << >>]
    ELSE [err |-> "none", maker_amount |-> Str(maker.v), taker_amount |-> Str(taker.v)]

(* a market BUY given the ceilings of a limit BUY *)
MarketBuyAsLimit(size, price) ==
    LET shares_amount == PyRoundN(size, 2)
        usdc_amount   == PyRoundN(FMul(shares_amount, price), 4)
    IN  Amounts(BaseUnits(usdc_amount, 4, 2), BaseUnits(shares_amount, 2, 4))

(* Market BUY: USDC max 2 decimals, shares max 4 decimals *)
MarketBuyAmounts(size, price) ==
    LET shares_amount == PyRoundN(size, 4)
        usdc_amount   == PyRoundN(FMul(shares_amount, price), 2)
    IN  Amounts(BaseUnits(usdc_amount, 2, 4), BaseUnits(shares_amount, 4, 2))

(* a limit BUY whose USDC amount is taken from the size as given *)
LimitBuyUnrounded(size, price) ==
    LET shares_amount == PyRoundN(size, 2)
        usdc_amount   == PyRoundN(FMul(size, price), 4)
    IN  Amounts(BaseUnits(usdc_amount, 4, 2), BaseUnits(shares_amount, 2, 4))

(* Limit BUY: USDC max 4 decimals, shares max 2 decimals *)
LimitBuyAmounts(size, price) ==
    LET shares_amount == PyRoundN(size, 2)
        usdc_amount   == PyRoundN(FMul(shares_amount, price), 4)
    IN  Amounts(BaseUnits(usdc_amount, 4, 2), BaseUnits(shares_amount, 2, 4))

(* a SELL whose two amounts are assigned the way a BUY assigns them *)
SellLegsSwapped(size, price) ==
    LET shares_amount == PyRoundN(size, 2)
        usdc_amount   == PyRoundN(FMul(shares_amount, price), 4)
    IN  Amounts(BaseUnits(usdc_amount, 4, 2), BaseUnits(shares_amount, 2, 4))

(* ALL SELL orders: shares max 2 decimals, USDC max 4 decimals *)
SellAmounts(size, price) ==
    LET shares_amount == PyRoundN(size, 2)
        usdc_amount   == PyRoundN(FMul(shares_amount, price), 4)
    IN  Amounts(BaseUnits(shares_amount, 2, 4), BaseUnits(usdc_amount, 4, 2))

(* GTD taken for a market order type *)
(* is_market_order with the order type compared in any letter case *)
IsMarketOrderAnyCase(order_type) == order_type \in {"FOK", "FAK", "fok", "fak"}

IsMarketOrderWithGTD(order_type) == order_type \in {"FOK", "FAK", "GTD"}

IsMarketOrder(order_type) == order_type \in {"FOK", "FAK"}

(* the side code with the two codes exchanged *)
SideValueSwapped(side) == IF side = BUY THEN 1 ELSE 0

SideValue(side) == IF side = BUY THEN 0 ELSE 1

NoOrder == [made |-> FALSE]

(* the branch with a limit BUY given the ceilings of a market BUY *)
OrderAmountsLimitAsMarket(side, order_type, size, price) ==
    IF side = BUY THEN MarketBuyAmounts(size, price) ELSE SellAmounts(size, price)

(* the branch on is_market_order and side that sets the two amounts *)
OrderAmounts(side, order_type, size, price) ==
    IF side = BUY
    THEN IF IsMarketOrder(order_type) THEN MarketBuyAmounts(size, price)
         ELSE LimitBuyAmounts(size, price)
    ELSE SellAmounts(size, price)

(* the object once the amounts are set, or the exception their conversion  *)
(* raised                                                                  *)
WithAmounts(f, side, price, amts) ==
    IF amts.err # "none" THEN [err |-> amts.err, order |-> NoOrder]
    ELSE [err |-> "none",
          order |-> [made |-> TRUE,
                     token_id |-> f.token_id,
                     price |-> price,
                     size |-> f.size,
                     side |-> side,
                     maker |-> f.maker,
                     nonce |-> IF f.nonce = None THEN 0 ELSE f.nonce[1],
                     fee_rate_bps |-> f.fee_rate_bps,
                     signature_type |-> f.signature_type,
                     order_type |-> f.order_type,
                     maker_amount |-> amts.maker_amount,
                     taker_amount |-> amts.taker_amount,
                     side_value |-> SideValue(side)]]

(* __post_init__ after validation, with the upper-cased side and the price *)
(* rounded to the tick                                                     *)
Normalized(f, side, price) ==
    WithAmounts(f, side, price, OrderAmounts(side, f.order_type, f.size, price))

(* __post_init__ without its three checks *)
PostInitUnchecked(f) == Normalized(f, StrUpper(f.side), PyRoundN(f.price, 2))

(* __post_init__ with the range check of the price made after its rounding *)
PostInitRoundFirst(f) ==
    IF StrUpper(f.side) \notin {BUY, SELL} THEN [err |-> "ValueError", order |-> NoOrder]
    ELSE IF ~(FLt(F0, PyRoundN(f.price, 2)) /\ FLe(PyRoundN(f.price, 2), F1))
    THEN [err |-> "ValueError", order |-> NoOrder]
    ELSE IF FLe(f.size, F0) THEN [err |-> "ValueError", order |-> NoOrder]
    ELSE Normalized(f, StrUpper(f.side), PyRoundN(f.price, 2))

(* Order.__post_init__ on the fields the dataclass constructor has set:    *)
(* the error raised ("none" when it returns) and the object it leaves      *)
PostInit(f) ==
    IF StrUpper(f.side) \notin {BUY, SELL} THEN [err |-> "ValueError", order |-> NoOrder]
    ELSE IF ~(FLt(F0, f.price) /\ FLe(f.price, F1))
    THEN [err |-> "ValueError", order |-> NoOrder]
    ELSE IF FLe(f.size, F0) THEN [err |-> "ValueError", order |-> NoOrder]
    ELSE Normalized(f, StrUpper(f.side), PyRoundN(f.price, 2))

----------------------------------------------------------------------------
(* class OrderSigner                                                       *)

(* An address is modelled by the account it names and the letter case it   *)
(* is written in; to_checksum_address gives the EIP-55 mixed-case form of  *)
(* any well-formed spelling and raises on anything else.                   *)
Addr(acct, form) == [acct |-> acct, form |-> form]
ZeroAddress == Addr("zero", "lower")

ToChecksumAddress(a) ==
    IF a.form \in {"lower", "upper", "checksum"}
    THEN [err |-> "none", v |-> Addr(a.acct, "checksum")]
    ELSE [err |-> "ValueError", v |-> a]

ORDER_DOMAIN ==
    [name |-> "Polymarket CTF Exchange", version |-> "1", chainId |-> 137,
     verifyingContract |-> "0x4bFb41d5B3570DeFd03C39a9A4D8dE6Bd8B8982E"]

ORDER_TYPES ==
    <<[name |-> "salt", type |-> "uint256"],
      [name |-> "maker", type |-> "address"],
      [name |-> "signer", type |-> "address"],
      [name |-> "taker", type |-> "address"],
      [name |-> "tokenId", type |-> "uint256"],
      [name |-> "makerAmount", type |-> "uint256"],
      [name |-> "takerAmount", type |-> "uint256"],
      [name |-> "expiration", type |-> "uint256"],
      [name |-> "nonce", type |-> "uint256"],
      [name |-> "feeRateBps", type |-> "uint256"],
      [name |-> "side", type |-> "uint8"],
      [name |-> "signatureType", type |-> "uint8"]>>

(* OrderSigner.__init__: the address is the one the key derives *)
OrderSignerOf(key) == [wallet |-> key, address |-> Addr(key, "checksum")]

(* random.randint(1, 2**40 - 1) *)
SaltLow  == IntOf(1)
SaltHigh == PyInt(FALSE, BSub(BPow2(40), BOne))

TwoTo256 == BPow2(256)
TwoTo8   == BPow2(8)

(* a value fits the unsigned type of the field that holds it *)
FitsType(v, type) ==
    IF type = "address" THEN v.form = "checksum"
    ELSE IF type = "string" THEN TRUE
    ELSE /\ ~v.neg
         /\ BCmp(v.mag, IF type = "uint8" THEN TwoTo8 ELSE TwoTo256) < 0

(* encode_typed_data: every field is encoded by its declared type (a value *)
(* outside the type raises); the digest, keccak256 of 0x1901, the domain   *)
(* separator and the struct hash, is modelled by the domain and the field  *)
(* values it is computed from, as a hash without collisions                *)
EncodeTypedData(domain_data, message_types, message_data) ==
    IF \A i \in DOMAIN message_types :
          FitsType(message_data[message_types[i].name], message_types[i].type)
    THEN [err |-> "none",
          v |-> [domain |-> domain_data,
                 struct |-> [i \in DOMAIN message_types |->
                               message_data[message_types[i].name]]]]
    ELSE [err |-> "ValueError", v |-> << >>]

(* wallet.sign_message and the recovery of the signing address from a      *)
(* signature and a digest                                                  *)
SignMessage(wallet, signable) == [by |-> wallet, over |-> signable]
Recover(signature, digest) ==
    IF signature.over = digest THEN Addr(signature.by, "checksum")
    ELSE Addr("other", "checksum")

(* order_message with the maker of the order in the place of the signer *)
OrderMessageSignerIsMaker(order, salt, address) ==
    LET maker   == ToChecksumAddress(order.maker)
        taker   == ToChecksumAddress(ZeroAddress)
        tokenId == ParseInt(order.token_id)
        makerAm == ParseInt(order.maker_amount)
        takerAm == ParseInt(order.taker_amount)
        errs    == <<maker.err, taker.err, tokenId.err, makerAm.err, takerAm.err>>
    IN  IF \E i \in DOMAIN errs : errs[i] # "none"
        THEN [err |-> "ValueError", v |-> << >>]
        ELSE [err |-> "none",
              v |-> [salt |-> salt,
                     maker |-> maker.v,
                     signer |-> maker.v,
                     taker |-> taker.v,
                     tokenId |-> tokenId.v,
                     makerAmount |-> makerAm.v,
                     takerAmount |-> takerAm.v,
                     expiration |-> IntOf(0),
                     nonce |-> IntOf(order.nonce),
                     feeRateBps |-> IntOf(order.fee_rate_bps),
                     side |-> IntOf(order.side_value),
                     signatureType |-> IntOf(order.signature_type)]]

(* order_message of sign_order; the first conversion that raises ends it   *)
OrderMessage(order, salt, address) ==
    LET maker   == ToChecksumAddress(order.maker)
        signer  == ToChecksumAddress(address)
        taker   == ToChecksumAddress(ZeroAddress)
        tokenId == ParseInt(order.token_id)
        makerAm == ParseInt(order.maker_amount)
        takerAm == ParseInt(order.taker_amount)
        errs    == <<maker.err, signer.err, taker.err, tokenId.err, makerAm.err,
                     takerAm.err>>
    IN  IF \E i \in DOMAIN errs : errs[i] # "none"
        THEN [err |-> "ValueError", v |-> << >>]
        ELSE [err |-> "none",
              v |-> [salt |-> salt,
                     maker |-> maker.v,
                     signer |-> signer.v,
                     taker |-> taker.v,
                     tokenId |-> tokenId.v,
                     makerAmount |-> makerAm.v,
                     takerAmount |-> takerAm.v,
                     expiration |-> IntOf(0),
                     nonce |-> IntOf(order.nonce),
                     feeRateBps |-> IntOf(order.fee_rate_bps),
                     side |-> IntOf(order.side_value),
                     signatureType |-> IntOf(order.signature_type)]]

(* the dictionary with the two amounts under each other's key *)
PayloadAmountsSwapped(order, order_message, signed) ==
    [order |->
        [salt |-> order_message.salt,
         maker |-> order_message.maker,
         signer |-> order_message.signer,
         taker |-> order_message.taker,
         tokenId |-> Str(order_message.tokenId),
         makerAmount |-> Str(order_message.takerAmount),
         takerAmount |-> Str(order_message.makerAmount),
         expiration |-> Str(order_message.expiration),
         nonce |-> Str(order_message.nonce),
         feeRateBps |-> Str(order_message.feeRateBps),
         side |-> order.side,
         signatureType |-> order_message.signatureType,
         signature |-> signed]]

(* the dictionary sign_order returns *)
Payload(order, order_message, signed) ==
    [order |->
        [salt |-> order_message.salt,
         maker |-> order_message.maker,
         signer |-> order_message.signer,
         taker |-> order_message.taker,
         tokenId |-> Str(order_message.tokenId),
         makerAmount |-> Str(order_message.makerAmount),
         takerAmount |-> Str(order_message.takerAmount),
         expiration |-> Str(order_message.expiration),
         nonce |-> Str(order_message.nonce),
         feeRateBps |-> Str(order_message.feeRateBps),
         side |-> order.side,
         signatureType |-> order_message.signatureType,
         signature |-> signed]]

NoPayload == [order |-> << >>]
NoMessage == << >>

(* sign_order(order) with the salt drawn: every exception becomes           *)
(* SignerError; signs counts the calls of wallet.sign_message it has made  *)
Signed(self, order, order_message, signable) ==
    IF signable.err # "none"
    THEN [err |-> "SignerError", message |-> NoMessage, payload |-> NoPayload,
          signs |-> 0]
    ELSE [err |-> "none", message |-> signable.v,
          payload |-> Payload(order, order_message,
                              SignMessage(self.wallet, signable.v)),
          signs |-> 1]

(* sign_order with the exceptions of its conversions passed on as raised *)
EncodedPassesOn(self, order, msg) ==
    IF msg.err # "none"
    THEN [err |-> msg.err, message |-> NoMessage, payload |-> NoPayload, signs |-> 0]
    ELSE Signed(self, order, msg.v,
                EncodeTypedData(ORDER_DOMAIN, ORDER_TYPES, msg.v))

Encoded(self, order, msg) ==
    IF msg.err # "none"
    THEN [err |-> "SignerError", message |-> NoMessage, payload |-> NoPayload,
          signs |-> 0]
    ELSE Signed(self, order, msg.v,
                EncodeTypedData(ORDER_DOMAIN, ORDER_TYPES, msg.v))

SignOrderResult(self, order, salt) ==
    Encoded(self, order, OrderMessage(order, salt, self.address))

(* wallet.sign_message raising (the key is not available): the call, once  *)
(* reached, is made once and its exception becomes SignerError             *)
Faulted(r, fails) ==
    IF fails /\ r.err = "none"
    THEN [err |-> "SignerError", message |-> NoMessage, payload |-> NoPayload,
          signs |-> 1]
    ELSE r

SignOrderOutcome(self, order, salt, fails) ==
    Faulted(SignOrderResult(self, order, salt), fails)

(* sign_order_dict(token_id, price, size, side, maker, nonce, fee_rate_bps) *)
(* the Order it constructs, given the order type of a market order *)
SignOrderDictArgsAsMarket(a) ==
    [token_id |-> a.token_id, price |-> a.price, size |-> a.size, side |-> a.side,
     maker |-> a.maker, nonce |-> a.nonce, fee_rate_bps |-> a.fee_rate_bps,
     signature_type |-> 2, order_type |-> "FOK"]

(* the arguments of its Order(...): signature_type and order_type are left *)
(* to the defaults of the dataclass                                        *)
SignOrderDictArgs(a) ==
    [token_id |-> a.token_id, price |-> a.price, size |-> a.size, side |-> a.side,
     maker |-> a.maker, nonce |-> a.nonce, fee_rate_bps |-> a.fee_rate_bps,
     signature_type |-> 2, order_type |-> "GTC"]

DictSigned(r, sg) ==
    [err |-> sg.err, order |-> r.order, message |-> sg.message,
     payload |-> sg.payload, signs |-> sg.signs]

(* an exception of the constructor leaves sign_order_dict as raised *)
DictBuilt(self, r, salt, fails) ==
    IF r.err # "none"
    THEN [err |-> r.err, order |-> NoOrder, message |-> NoMessage,
          payload |-> NoPayload, signs |-> 0]
    ELSE DictSigned(r, SignOrderOutcome(self, r.order, salt, fails))

(* OrderSigner.__init__(private_key).  A key string is the sequence of its *)
(* parts: the prefix "0x" and the digits after it, named by the scalar     *)
(* they denote.  Account.from_key takes "0x" and 64 hex digits of a scalar *)
(* in the range of the curve and raises on anything else.                  *)
KeyHex == {"key1", "key2"}

StartsWith0x(private_key) == private_key # << >> /\ private_key[1] = "0x"

FromKey(s) ==
    IF Len(s) = 2 /\ s[1] = "0x" /\ s[2] \in KeyHex
    THEN [err |-> "none", v |-> s[2]]
    ELSE [err |-> "ValueError", v |-> "none"]

NoSigner == [wallet |-> "none", address |-> Addr("none", "none")]

Wallet(account) ==
    IF account.err # "none" THEN [err |-> "ValueError", signer |-> NoSigner]
    ELSE [err |-> "none", signer |-> OrderSignerOf(account.v)]

(* __init__ without the removal of the prefix *)
OrderSignerInitKeepsPrefix(private_key) ==
    Wallet(FromKey(<<"0x">> \o private_key))

OrderSignerInit(private_key) ==
    Wallet(FromKey(<<"0x">> \o (IF StartsWith0x(private_key) THEN Tail(private_key)
                                 ELSE private_key)))

(* sign_auth_message(timestamp, nonce) *)
AUTH_DOMAIN == [name |-> "ClobAuthDomain", version |-> "1", chainId |-> 137]

AuthTypes ==
    <<[name |-> "address", type |-> "address"],
      [name |-> "timestamp", type |-> "string"],
      [name |-> "nonce", type |-> "uint256"],
      [name |-> "message", type |-> "string"]>>

AuthMessage(self, timestamp, nonce) ==
    [address |-> self.address,
     timestamp |-> timestamp,
     nonce |-> IntOf(nonce),
     message |-> "This message attests that I control the given wallet"]

NoAuth == [err |-> "none", message |-> NoMessage, signature |-> << >>]

AuthSigned(self, signable) ==
    IF signable.err # "none"
    THEN [err |-> signable.err, message |-> NoMessage, signature |-> << >>]
    ELSE [err |-> "none", message |-> signable.v,
          signature |-> SignMessage(self.wallet, signable.v)]

(* the auth message signed under the domain of the orders *)
SignAuthUnderOrderDomain(self, timestamp, now, nonce) ==
    AuthSigned(self,
               EncodeTypedData(ORDER_DOMAIN, AuthTypes,
                               AuthMessage(self, IF timestamp = None THEN now
                                                 ELSE timestamp[1], nonce)))

SignAuthMessageResult(self, timestamp, now, nonce) ==
    AuthSigned(self,
               EncodeTypedData(AUTH_DOMAIN, AuthTypes,
                               AuthMessage(self, IF timestamp = None THEN now
                                                 ELSE timestamp[1], nonce)))

----------------------------------------------------------------------------
(* class ApiClient and ClobClient.post_order (client.py)                   *)

GET == <<"G", "E", "T">>
POST == <<"P", "O", "S", "T">>
DELETE == <<"D", "E", "L", "E", "T", "E">>

(* retry_count of ApiClient.__init__ when the caller gives none, which is  *)
(* what ClobClient.__init__ leaves it at                                   *)
DefaultRetryCount == 3

(* What one HTTP exchange can come to: no response (a connection error or  *)
(* a timeout), a response with an error status, or a response with a       *)
(* success status whose body is empty, JSON, or text that is not JSON.     *)
Outcomes == {"transport_error", "http_error", "ok_empty", "ok_json", "ok_text"}

(* response.json() on a body that is not JSON raises JSONDecodeError: a    *)
(* RequestException in requests 2.27 and later, a plain ValueError before  *)
JsonErrors == {"RequestException", "ValueError"}

(* time.time() when the client is made, in seconds *)
StartTime == 1700000000

(* the headers of a request: Content-Type and those the caller adds *)
NoHeaders == << >>
RequestHeaders(headers) == [content_type |-> "application/json", extra |-> headers]

(* ApiClient.__init__: no call of _request is under way.  kind tells the   *)
(* subclass, builder_creds is None or the BuilderConfig given, time is the *)
(* clock the client reads                                                  *)
ApiClientInit(retry_count, json_error) ==
    [retry_count |-> retry_count, json_error |-> json_error,
     kind |-> "api", builder_creds |-> None, time |-> StartTime,
     method |-> << >>, endpoint |-> "", data |-> << >>, headers |-> NoHeaders,
     attempt |-> 0, last_error |-> "None",
     trace |-> << >>, state |-> "idle", result |-> << >>]

(* ClobClient.__init__ and RelayerClient.__init__: retry_count is left at  *)
(* its default                                                             *)
ClobClientInit(builder_creds, json_error) ==
    [ApiClientInit(DefaultRetryCount, json_error)
        EXCEPT !.kind = "clob", !.builder_creds = builder_creds]
RelayerClientInit(builder_creds, json_error) ==
    [ApiClientInit(DefaultRetryCount, json_error)
        EXCEPT !.kind = "relayer", !.builder_creds = builder_creds]

(* _request(method, endpoint, data): the state before the loop *)
RequestCall(h, method, data) ==
    [h EXCEPT !.method = method, !.data = data, !.attempt = 0,
              !.headers = RequestHeaders(NoHeaders),
              !.last_error = "None", !.state = "running", !.result = << >>]

(* _request(method, endpoint, data=data, headers=headers) *)
RequestWith(h, method, endpoint, data, headers) ==
    [RequestCall(h, method, data)
        EXCEPT !.endpoint = endpoint, !.headers = RequestHeaders(headers)]

(* json.dumps(body, separators=(',', ':')): the text of the body *)
JsonDumps(body) == [json |-> body]

(* builder_creds is set and is_configured() says so *)
Configured(creds) == creds # None /\ creds.configured

(* the four builder headers: the HMAC-SHA256 of the secret over timestamp, *)
(* method, path and body is modelled by what it is computed from           *)
BuilderHeaders(creds, timestamp, method, path, body) ==
    [POLY_BUILDER_API_KEY |-> creds.api_key,
     POLY_BUILDER_TIMESTAMP |-> timestamp,
     POLY_BUILDER_PASSPHRASE |-> creds.api_passphrase,
     POLY_BUILDER_SIGNATURE |->
        [secret |-> creds.api_secret, message |-> <<timestamp, method, path, body>>]]

(* ClobClient._build_headers(method, path, body) *)
ClobBuildHeaders(h, method, path, body) ==
    IF Configured(h.builder_creds)
    THEN BuilderHeaders(h.builder_creds, Str(IntOf(h.time)), method, path, body)
    ELSE NoHeaders

(* RelayerClient._build_headers returning no headers without credentials *)
RelayerBuildHeadersLenient(h, method, path, body) ==
    [err |-> "none", v |-> ClobBuildHeaders(h, method, path, body)]

(* RelayerClient._build_headers(method, path, body) *)
RelayerBuildHeaders(h, method, path, body) ==
    IF ~Configured(h.builder_creds)
    THEN [err |-> "AuthenticationError", v |-> NoHeaders]
    ELSE [err |-> "none",
          v |-> BuilderHeaders(h.builder_creds, Str(IntOf(h.time)), method, path, body)]

Supported(method) == StrUpper(method) \in {GET, POST, DELETE}

(* the trace of a call: the requests sent, each with what the exchange    *)
(* came to, and the waits                                                  *)
SendEvent(h, o) ==
    [ev |-> "send", method |-> StrUpper(h.method), data |-> h.data,
     headers |-> h.headers, attempt |-> h.attempt, outcome |-> o, secs |-> 0]
SleepEvent(h) ==
    [ev |-> "sleep", method |-> << >>, data |-> << >>, headers |-> NoHeaders,
     attempt |-> h.attempt, outcome |-> "none", secs |-> 2 ^ h.attempt]

(* the except clause sleeping after every failure, the last one too *)
CaughtAlwaysSleeps(h, e) ==
    [h EXCEPT !.last_error = e,
              !.trace = Append(h.trace, SleepEvent(h)),
              !.time = h.time + 2 ^ h.attempt,
              !.attempt = h.attempt + 1]

(* the except clause: the error is kept, the client sleeps unless this was *)
(* the last attempt, and the loop goes on                                  *)
Caught(h, e) ==
    [h EXCEPT !.last_error = e,
              !.trace = IF h.attempt < h.retry_count - 1
                        THEN Append(h.trace, SleepEvent(h)) ELSE h.trace,
              !.time = IF h.attempt < h.retry_count - 1
                       THEN h.time + 2 ^ h.attempt ELSE h.time,
              !.attempt = h.attempt + 1]

Returned(h, body) ==
    [h EXCEPT !.state = "returned", !.result = [attempt |-> h.attempt, body |-> body]]

Raised(h, e) == [h EXCEPT !.state = e]

(* what follows the exchange: raise_for_status, then the body *)
Answered(h, o) ==
    IF o \in {"transport_error", "http_error"} THEN Caught(h, o)
    ELSE IF o = "ok_empty" THEN Returned(h, "{}")
    ELSE IF o = "ok_json" THEN Returned(h, "json")
    ELSE IF h.json_error = "RequestException" THEN Caught(h, "JSONDecodeError")
    ELSE Raised(h, "ValueError")

(* the request sent with headers built again for this attempt *)
SentRebuildsHeaders(h, o) ==
    [h EXCEPT !.trace =
        Append(h.trace,
               [SendEvent(h, o) EXCEPT !.headers =
                   RequestHeaders(ClobBuildHeaders(h, StrUpper(h.method), h.endpoint,
                                                   JsonDumps(h.data)))])]

Sent(h, o) == [h EXCEPT !.trace = Append(h.trace, SendEvent(h, o))]

(* an iteration that sends whatever the method is *)
IterationSendsAny(h, o) == Answered(Sent(h, o), o)

(* one iteration of the loop of _request, the exchange coming to o *)
Iteration(h, o) ==
    IF ~Supported(h.method) THEN Raised(h, "ApiError")
    ELSE Answered(Sent(h, o), o)

(* the loop has run out: raise ApiError *)
LoopEnded(h) == Raised(h, "ApiError")

(* post_order(signed_order, order_type): the body of the request; the      *)
(* dictionary sign_order returns has no key "signature" beside "order"     *)
PostOrderBody(signed_order, funder, order_type) ==
    [order |-> signed_order.order, owner |-> funder, orderType |-> order_type]

----------------------------------------------------------------------------
(* The inputs considered.                                                  *)

MaxPriceMilli == 6
MaxSizeMilli == 5

PriceLits ==
    {Lit(i, -3) : i \in -1..MaxPriceMilli}
      \cup {Lit(15, -3), Lit(11, -2), Lit(40, -2), Lit(61, -2), Lit(70, -2),
            Lit(996, -3), Lit(1, 0), Lit(1004, -3), LitNaN}

SizeLits ==
    {Lit(i, -3) : i \in -1..MaxSizeMilli}
      \cup {Lit(1, -2), Lit(2, -1), Lit(147, -2), Lit(168, -2), Lit(55556, -4),
            Lit(123455, -5), Lit(1, 72), Lit(1, 307), LitInf}

Sides == {BUY, SELL, <<"b", "u", "y">>, <<"H", "O", "L", "D">>}
OrderTypes == {"GTC", "GTD", "FOK", "FAK", "fok", "IOC"}

TokenIds ==
    {<<"1">>, <<"0", "0", "7">>, <<"-", "1">>, <<"a", "b", "c">>,
     <<"1", "7", "6", "7", "7", "2", "9", "5", "3", "4", "1", "2", "8", "4", "4", "0", "4", "3", "0",
      "1", "6", "8", "4", "1", "9", "0", "4", "2", "9", "3", "5", "3", "8", "7", "0", "8", "9", "7",
      "3", "9", "7", "4", "5", "6", "8", "0", "0", "8", "9", "4", "4", "9", "6", "3", "9", "3", "3",
      "0", "5", "5", "2", "5", "3", "4", "8", "2", "0", "7", "7", "0", "6", "1", "2", "7", "4", "7",
      "6">>}

Makers == {Addr("safe", "checksum"), Addr("safe", "lower"), Addr("key1", "upper"),
           Addr("safe", "short")}

DefaultArgs ==
    [token_id |-> <<"1">>, price |-> Lit(70, -2), size |-> Lit(147, -2), side |-> BUY,
     maker |-> Addr("safe", "checksum"), nonce |-> None, fee_rate_bps |-> 0,
     signature_type |-> 2, order_type |-> "GTC"]

(* the orders that vary what normalisation reads *)
AmountInputs ==
    {[DefaultArgs EXCEPT !.price = p, !.size = z, !.side = sd, !.order_type = ot] :
        p \in PriceLits, z \in SizeLits, sd \in Sides, ot \in OrderTypes}

(* the orders that vary what signing reads *)
SignInputs ==
    {[DefaultArgs EXCEPT !.token_id = t, !.maker = mk, !.nonce = nn,
                         !.fee_rate_bps = fee, !.signature_type = st, !.side = sd] :
        t \in TokenIds, mk \in Makers, nn \in {None, <<0>>, <<7>>, <<-1>>},
        fee \in {0, 1000}, st \in {0, 2, 256}, sd \in {BUY, SELL}}

Inputs == AmountInputs \cup SignInputs

(* the float each literal denotes *)
LitFloat == [l \in PriceLits \cup SizeLits |-> FromLiteral(l)]

(* the fields the dataclass constructor sets from the call's arguments *)
Fields(a) == [a EXCEPT !.price = LitFloat[a.price], !.size = LitFloat[a.size]]

Keys == {"key1"}

(* random.randint(0, 2**40 - 1): the range with its lower end at 0 *)
SaltsFromZero == {IntOf(0), SaltHigh}

Salts == {SaltLow, SaltHigh}

(* a trading session constructs and signs several orders in turn: the      *)
(* orders it may ask for, and how many                                     *)
MaxOrders == 2

SessionInputs ==
    {[DefaultArgs EXCEPT !.size = Lit(123455, -5), !.side = sd, !.order_type = ot,
                         !.nonce = nn] :
        sd \in {BUY, SELL}, ot \in {"GTC", "GTD", "FOK", "FAK"}, nn \in {None, <<7>>}}

(* the calls of sign_order_dict considered *)
DictInputs ==
    {[token_id |-> t, price |-> p, size |-> z, side |-> sd, maker |-> mk,
      nonce |-> nn, fee_rate_bps |-> 0] :
        t \in {<<"1">>, <<"a", "b", "c">>},
        p \in {Lit(70, -2), Lit(61, -2), Lit(4, -3), Lit(1004, -3)},
        z \in {Lit(147, -2), Lit(123455, -5), Lit(55556, -4), Lit(0, -3), Lit(1, 72)},
        sd \in Sides,
        mk \in {Addr("safe", "checksum"), Addr("safe", "short")},
        nn \in {None, <<7>>}}

(* a trade from the key on: the key strings, the arguments of the auth    *)
(* message, the clock, and the orders asked for                            *)
PrivateKeys ==
    {<<"key1">>, <<"0x", "key1">>, <<"key2">>, <<"0x", "key2">>,
     <<"0x", "0x", "key1">>, <<"short">>, <<"0x", "zero">>, << >>}

Timestamps == {None, <<"1600000000">>}
Clock == {"1700000000"}
AuthNonces == {0, 1, -1}

TradeInputs ==
    {DefaultArgs,
     [DefaultArgs EXCEPT !.side = <<"s", "e", "l", "l">>, !.order_type = "FOK"],
     [DefaultArgs EXCEPT !.maker = Addr("key1", "upper")],
     [DefaultArgs EXCEPT !.price = Lit(4, -3)],
     [DefaultArgs EXCEPT !.price = Lit(1004, -3)],
     [DefaultArgs EXCEPT !.size = Lit(0, -3)],
     [DefaultArgs EXCEPT !.size = Lit(1, 72)],
     [DefaultArgs EXCEPT !.side = <<"H", "O", "L", "D">>],
     [DefaultArgs EXCEPT !.token_id = <<"a", "b", "c">>],
     [DefaultArgs EXCEPT !.maker = Addr("safe", "short")],
     [DefaultArgs EXCEPT !.signature_type = 256]}

Funders == {Addr("safe", "checksum")}

(* builder_creds: none, a BuilderConfig that is configured, one that is    *)
(* not                                                                     *)
BuilderCreds ==
    {None,
     [api_key |-> "key", api_secret |-> "secret", api_passphrase |-> "pass",
      configured |-> TRUE],
     [api_key |-> "", api_secret |-> "", api_passphrase |-> "",
      configured |-> FALSE]}

(* the operations of the two clients: what each passes to _build_headers  *)
(* and to _request; auth tells whether it builds headers at all            *)
ClobOps ==
    <<[name |-> "get_order_book", method |-> GET, endpoint |-> "/orderbook/1",
       data |-> << >>, body |-> "", auth |-> FALSE],
      [name |-> "get_open_orders", method |-> GET, endpoint |-> "/orders",
       data |-> << >>, body |-> "", auth |-> TRUE],
      [name |-> "get_trades", method |-> GET, endpoint |-> "/trades",
       data |-> << >>, body |-> "", auth |-> TRUE],
      [name |-> "cancel_order", method |-> DELETE, endpoint |-> "/order/1",
       data |-> << >>, body |-> "", auth |-> TRUE],
      [name |-> "cancel_all_orders", method |-> DELETE, endpoint |-> "/orders",
       data |-> [maker |-> Addr("safe", "checksum")],
       body |-> JsonDumps([maker |-> Addr("safe", "checksum")]), auth |-> TRUE]>>

RelayerOps ==
    <<[name |-> "deploy_safe", endpoint |-> "/deploy",
       data |-> [safeAddress |-> Addr("safe", "checksum")]],
      [name |-> "approve_usdc", endpoint |-> "/approve-usdc",
       data |-> [safeAddress |-> Addr("safe", "checksum"),
                 spender |-> Addr("exchange", "checksum"), amount |-> <<"5">>]],
      [name |-> "approve_token", endpoint |-> "/approve-token",
       data |-> [safeAddress |-> Addr("safe", "checksum"), tokenId |-> <<"1">>,
                 spender |-> Addr("exchange", "checksum"), amount |-> <<"5">>]]>>

(* the calls of _request considered *)
MaxRetries == 3
Methods == {GET, <<"p", "o", "s", "t">>, <<"D", "e", "l", "e", "t", "e">>,
            <<"P", "U", "T">>, <<"P", "a", "t", "c", "h">>, << >>}

----------------------------------------------------------------------------
(* The state machine: an Order is constructed from the arguments, then     *)
(* signed; a session goes on to the next order.  A trade starts from the   *)
(* private key and ends with the signed order posted.                      *)

VARIABLES
    args,      \* the arguments of the Order(...) call
    pc,        \* "new", "built", "rejected", "signed", "sign_failed"
    order,     \* the Order object, NoOrder when the constructor raised
    err,       \* the exception the last call raised, "none" if it returned
    signer,    \* the OrderSigner
    message,   \* what sign_order signed: the domain and the encoded struct
    payload,   \* what sign_order returned
    built,     \* the orders constructed so far: their arguments and amounts
    key,       \* the private key string given to OrderSigner(...)
    auth,      \* what sign_auth_message signed and returned
    signs,     \* the calls of wallet.sign_message the last sign_order made
    http       \* the ApiClient and its call of _request

vars == <<args, pc, order, err, signer, message, payload, built, key, auth, signs, http>>

Start(inputs) ==
    /\ args \in inputs
    /\ pc = "new"
    /\ order = NoOrder
    /\ err = "none"
    /\ signer \in {OrderSignerOf(k) : k \in Keys}
    /\ message = NoMessage
    /\ payload = NoPayload
    /\ built = << >>
    /\ key = <<signer.wallet>>
    /\ auth = NoAuth
    /\ signs = 0
    /\ http = ApiClientInit(DefaultRetryCount, "RequestException")

Init == Start(Inputs)

Logged(log, a, r) ==
    IF r.err # "none" THEN log
    ELSE Append(log, [args |-> a, maker_amount |-> r.order.maker_amount,
                      taker_amount |-> r.order.taker_amount])

(* order = Order(...) with the arguments args *)
Construct ==
    /\ pc = "new"
    /\ \E r \in {PostInit(Fields(args))} :
          /\ order' = r.order
          /\ err' = r.err
          /\ pc' = IF r.err = "none" THEN "built" ELSE "rejected"
          /\ built' = Logged(built, args, r)
    /\ UNCHANGED <<args, signer, message, payload, key, auth, signs, http>>

(* signer.sign_order(order) *)
SignOrder ==
    /\ pc = "built"
    /\ \E salt \in Salts, fails \in BOOLEAN :
          \E r \in {SignOrderOutcome(signer, order, salt, fails)} :
              /\ err' = r.err
              /\ message' = r.message
              /\ payload' = r.payload
              /\ signs' = r.signs
              /\ pc' = IF r.err = "none" THEN "signed" ELSE "sign_failed"
    /\ UNCHANGED <<args, order, signer, built, key, auth, http>>

(* the caller turns to its next order *)
NewOrder ==
    /\ pc \in {"rejected", "signed", "sign_failed"}
    /\ Len(built) < MaxOrders
    /\ args' \in SessionInputs
    /\ pc' = "new"
    /\ order' = NoOrder
    /\ err' = "none"
    /\ message' = NoMessage
    /\ payload' = NoPayload
    /\ signs' = 0
    /\ UNCHANGED <<signer, built, key, auth, http>>

(* signer.sign_order_dict(...) with the arguments args *)
SignOrderDict ==
    /\ pc = "new"
    /\ \E salt \in Salts, fails \in BOOLEAN :
          \E r \in {DictBuilt(signer, PostInit(Fields(SignOrderDictArgs(args))),
                              salt, fails)} :
              /\ order' = r.order
              /\ err' = r.err
              /\ message' = r.message
              /\ payload' = r.payload
              /\ signs' = r.signs
              /\ pc' = IF ~r.order.made THEN "rejected"
                       ELSE IF r.err = "none" THEN "signed" ELSE "sign_failed"
    /\ UNCHANGED <<args, signer, built, key, auth, http>>

(* signer = OrderSigner(key) *)
NewSigner ==
    /\ pc = "key"
    /\ \E r \in {OrderSignerInit(key)} :
          /\ signer' = r.signer
          /\ err' = r.err
          /\ pc' = IF r.err = "none" THEN "ready" ELSE "no_signer"
    /\ UNCHANGED <<args, order, message, payload, built, key, auth, signs, http>>

(* signer.sign_auth_message(timestamp, nonce) *)
SignAuthMessage ==
    /\ pc = "ready"
    /\ \E timestamp \in Timestamps, now \in Clock, nonce \in AuthNonces :
          \E r \in {SignAuthMessageResult(signer, timestamp, now, nonce)} :
              /\ auth' = r
              /\ err' = r.err
              /\ pc' = IF r.err = "none" THEN "new" ELSE "auth_failed"
    /\ UNCHANGED <<args, order, signer, message, payload, built, key, signs, http>>

(* client.post_order(payload, order_type), up to the loop of _request *)
PostOrder ==
    /\ pc = "signed"
    /\ \E funder \in Funders :
          \E body \in {PostOrderBody(payload, funder, order.order_type)} :
              http' = RequestWith(http, POST, "/order", body,
                                  ClobBuildHeaders(http, POST, "/order",
                                                   JsonDumps(body)))
    /\ pc' = "requesting"
    /\ UNCHANGED <<args, order, err, signer, message, payload, built, key, auth, signs>>

(* client._request(method, endpoint), up to the loop *)
Request ==
    /\ pc = "client"
    /\ \E method \in Methods : http' = RequestCall(http, method, << >>)
    /\ pc' = "requesting"
    /\ UNCHANGED <<args, order, err, signer, message, payload, built, key, auth, signs>>

(* an operation of the ClobClient, up to the loop of _request *)
ClobCall ==
    /\ pc = "client"
    /\ http.kind = "clob"
    /\ \E i \in DOMAIN ClobOps :
          \E op \in {ClobOps[i]} :
              http' = RequestWith(http, op.method, op.endpoint, op.data,
                                  IF op.auth
                                  THEN ClobBuildHeaders(http, op.method, op.endpoint,
                                                        op.body)
                                  ELSE NoHeaders)
    /\ pc' = "requesting"
    /\ UNCHANGED <<args, order, err, signer, message, payload, built, key, auth, signs>>

(* an operation of the RelayerClient, up to the loop of _request *)
RelayerCall ==
    /\ pc = "client"
    /\ http.kind = "relayer"
    /\ \E i \in DOMAIN RelayerOps :
          \E op \in {RelayerOps[i]} :
              \E r \in {RelayerBuildHeaders(http, POST, op.endpoint,
                                             JsonDumps(op.data))} :
                  IF r.err # "none"
                  THEN /\ http' = http
                       /\ pc' = "raised"
                       /\ err' = r.err
                  ELSE /\ http' = RequestWith(http, POST, op.endpoint, op.data, r.v)
                       /\ pc' = "requesting"
                       /\ err' = err
    /\ UNCHANGED <<args, order, signer, message, payload, built, key, auth, signs>>

Left(h) ==
    IF h.state = "running" THEN "requesting"
    ELSE IF h.state = "returned" THEN "returned" ELSE "raised"

(* one iteration of the loop of _request *)
Attempt ==
    /\ pc = "requesting"
    /\ http.attempt < http.retry_count
    /\ \E o \in Outcomes :
          \E h \in {Iteration(http, o)} :
              /\ http' = h
              /\ pc' = Left(h)
              /\ err' = IF Left(h) = "raised" THEN h.state ELSE err
    /\ UNCHANGED <<args, order, signer, message, payload, built, key, auth, signs>>

(* the loop of _request has ended without a return *)
GiveUp ==
    /\ pc = "requesting"
    /\ http.attempt >= http.retry_count
    /\ http' = LoopEnded(http)
    /\ pc' = "raised"
    /\ err' = "ApiError"
    /\ UNCHANGED <<args, order, signer, message, payload, built, key, auth, signs>>

Next == Construct \/ SignOrder

Spec == Init /\ [][Next]_vars

InitSession == Start(SessionInputs)

NextSession == Construct \/ SignOrder \/ NewOrder

SpecSession == InitSession /\ [][NextSession]_vars

(* the calls of sign_order_dict *)
InitDict == Start(DictInputs)

NextDict == SignOrderDict

SpecDict == InitDict /\ [][NextDict]_vars

(* a trade: the signer is made from the key, signs the auth message, the   *)
(* order is constructed and signed, and the signed order is posted         *)
InitTrade ==
    /\ args \in TradeInputs
    /\ pc = "key"
    /\ order = NoOrder
    /\ err = "none"
    /\ signer = NoSigner
    /\ message = NoMessage
    /\ payload = NoPayload
    /\ built = << >>
    /\ key \in PrivateKeys
    /\ auth = NoAuth
    /\ signs = 0
    /\ http \in {ClobClientInit(c, j) : c \in BuilderCreds, j \in JsonErrors}

NextTrade ==
    NewSigner \/ SignAuthMessage \/ Construct \/ SignOrder \/ PostOrder \/ Attempt
      \/ GiveUp

SpecTrade == InitTrade /\ [][NextTrade]_vars

(* the operations of a ClobClient and of a RelayerClient *)
InitClient ==
    /\ args = DefaultArgs
    /\ pc = "client"
    /\ order = NoOrder
    /\ err = "none"
    /\ signer = NoSigner
    /\ message = NoMessage
    /\ payload = NoPayload
    /\ built = << >>
    /\ key = << >>
    /\ auth = NoAuth
    /\ signs = 0
    /\ http \in {ClobClientInit(c, j) : c \in BuilderCreds, j \in JsonErrors}
                \cup {RelayerClientInit(c, j) : c \in BuilderCreds, j \in JsonErrors}

NextClient == ClobCall \/ RelayerCall \/ Attempt \/ GiveUp

SpecClient == InitClient /\ [][NextClient]_vars

(* the calls of _request of an ApiClient *)
InitRequest ==
    /\ args = DefaultArgs
    /\ pc = "client"
    /\ order = NoOrder
    /\ err = "none"
    /\ signer = NoSigner
    /\ message = NoMessage
    /\ payload = NoPayload
    /\ built = << >>
    /\ key = << >>
    /\ auth = NoAuth
    /\ signs = 0
    /\ http \in {ApiClientInit(n, j) : n \in 0..MaxRetries, j \in JsonErrors}

NextRequest == Request \/ Attempt \/ GiveUp

SpecRequest == InitRequest /\ [][NextRequest]_vars

----------------------------------------------------------------------------
(* Properties.  The price and the size of a call are read as the decimals  *)
(* the caller wrote, the amounts as the decimal strings the Order holds.   *)

LitPositive(l) == ~l.neg /\ (l.sp = "inf" \/ (l.sp = "fin" /\ l.n > 0))
LitAtMostZero(l) == l.sp # "nan" /\ ~LitPositive(l)
LitAboveOne(l) ==
    /\ LitPositive(l)
    /\ \/ l.sp = "inf"
       \/ IF l.k >= 0 THEN l.n >= 2 \/ l.k > 0 ELSE l.n > Pow(10, -l.k)
LitInUnit(l) == LitPositive(l) /\ ~LitAboveOne(l)

ValidSide(side) == StrUpper(side) \in {BUY, SELL}

(* the decimal string s is a multiple of 10^n *)
MultipleOfPow10(s, n) ==
    s = <<"0">> \/ (Len(s) > n /\ \A i \in (Len(s) - n + 1)..Len(s) : s[i] = "0")

(* the decimal string s is an integer in 0 .. 2^256 - 1 *)
InUint256(s) ==
    LET v == ParseInt(s)
    IN  v.err = "none" /\ ~v.v.neg /\ BCmp(v.v.mag, TwoTo256) < 0

(* the quote (USDC) and the shares amount of an order, by its side code *)
QuoteLeg(o) == IF o.side_value = 0 THEN o.maker_amount ELSE o.taker_amount
SharesLeg(o) == IF o.side_value = 0 THEN o.taker_amount ELSE o.maker_amount

LimitTypes == {"GTC", "GTD"}
MarketTypes == {"FOK", "FAK"}
OrderClass(order_type) ==
    IF order_type \in MarketTypes THEN "MARKET"
    ELSE IF order_type \in LimitTypes THEN "LIMIT" ELSE order_type

(* the decimal places kept per (side, order class) *)
Ceiling ==
    [BUY  |-> [LIMIT  |-> [shares |-> 2, quote |-> 4],
               MARKET |-> [shares |-> 4, quote |-> 2]],
     SELL |-> [LIMIT  |-> [shares |-> 2, quote |-> 4],
               MARKET |-> [shares |-> 2, quote |-> 4]]]
Row(side, order_type) ==
    Ceiling[IF StrUpper(side) = BUY THEN "BUY" ELSE "SELL"][OrderClass(order_type)]

(* x, a decimal of at most dp places, in base units of 10^-USDC_DECIMALS *)
RefUnits(x, dp) ==
    Str(IntMul(PyRoundInt(FMul(x, Pow10Float[dp])).v, IntPow10(USDC_DECIMALS - dp)))

(* the two-stage computation: the price to the tick, the shares to their   *)
(* ceiling, the quote from the rounded shares to its ceiling               *)
RefShares(a) == PyRoundN(LitFloat[a.size], Row(a.side, a.order_type).shares)
RefQuote(a) ==
    PyRoundN(FMul(RefShares(a), PyRoundN(LitFloat[a.price], 2)),
             Row(a.side, a.order_type).quote)
RefSharesUnits(a) == RefUnits(RefShares(a), Row(a.side, a.order_type).shares)
RefQuoteUnits(a) == RefUnits(RefQuote(a), Row(a.side, a.order_type).quote)

Documented(a) == a.order_type \in LimitTypes \cup MarketTypes

(* C1: constructing an Order with price <= 0, price > 1 or size <= 0       *)
(* raises, whatever the side and the order type; nothing is clamped and    *)
(* no Order, hence no amount, comes out.                                   *)
C1_RejectsOutOfRange ==
    (pc # "new"
        /\ (LitAtMostZero(args.price) \/ LitAboveOne(args.price)
              \/ LitAtMostZero(args.size)))
      => (pc = "rejected" /\ err = "ValueError" /\ order = NoOrder)

(* a price above 1 that rounds to 1.00 has been rejected *)
C1_Witness ==
    /\ pc = "rejected"
    /\ args.price = Lit(1004, -3)
    /\ args.size = Lit(147, -2)
    /\ args.side = BUY

(* C2: for a side in {BUY, SELL}, a price in (0, 1] and a finite size > 0, *)
(* however large, the construction never raises and both amounts are       *)
(* integers in 0 .. 2^256 - 1.                                             *)
C2_NeverRaisesAndFits ==
    (pc # "new" /\ ValidSide(args.side) /\ LitInUnit(args.price)
        /\ LitPositive(args.size) /\ args.size.sp = "fin")
      => (order.made /\ InUint256(order.maker_amount)
            /\ InUint256(order.taker_amount))

(* C3: the precision ceilings of every constructed order: limit BUY maker  *)
(* a multiple of 10^2 and taker of 10^4; market BUY maker a multiple of    *)
(* 10^4 and taker of 10^2; SELL of any type maker a multiple of 10^4 and   *)
(* taker of 10^2.                                                          *)
C3_PrecisionCeilings ==
    order.made =>
        /\ (order.side = BUY /\ order.order_type \in LimitTypes)
              => (MultipleOfPow10(order.maker_amount, 2)
                    /\ MultipleOfPow10(order.taker_amount, 4))
        /\ (order.side = BUY /\ order.order_type \in MarketTypes)
              => (MultipleOfPow10(order.maker_amount, 4)
                    /\ MultipleOfPow10(order.taker_amount, 2))
        /\ order.side = SELL
              => (MultipleOfPow10(order.maker_amount, 4)
                    /\ MultipleOfPow10(order.taker_amount, 2))

(* a market BUY of 5.5556 shares keeps the fourth decimal of the shares *)
C3_Witness ==
    /\ order.made
    /\ order.side = BUY
    /\ order.order_type = "FOK"
    /\ order.taker_amount = Str(IntOf(5555600))
    /\ order.maker_amount = Str(IntOf(3390000))

(* C4: for every constructed order the ratio quote / shares of the two     *)
(* amounts is within one tick (0.01) of the tick-rounded price; with Q, S  *)
(* the amounts and P the price in ticks: |100 * Q - P * S| <= S.  An order *)
(* of no shares has no ratio and is left aside.                            *)
C4_ImpliedPriceWithinTick ==
    (pc = "built" /\ SharesLeg(order) # <<"0">>)
      => LET Q  == BMulSmall(ParseInt(QuoteLeg(order)).v.mag, 100)
             S  == ParseInt(SharesLeg(order)).v.mag
             PS == BMul(PyRoundInt(FMul(order.price, Pow10Float[2])).v.mag, S)
         IN  BCmp(IF BCmp(Q, PS) >= 0 THEN BSub(Q, PS) ELSE BSub(PS, Q), S) <= 0

(* C5: every constructed Order has a stored price in (0, 1], a size > 0    *)
(* and the side BUY or SELL.                                               *)
C5_DataModelInvariant ==
    pc = "built"
      => (FLt(F0, order.price) /\ FLe(order.price, F1) /\ FLt(F0, order.size)
            /\ order.side \in {BUY, SELL})

(* C6: the amounts of a constructed order are those of the two-stage       *)
(* computation: the price rounded to 2 decimals, the shares the size       *)
(* rounded to the shares ceiling of its row, the quote the product of the  *)
(* rounded shares and the rounded price, rounded to the quote ceiling.     *)
C6_TwoStageReference ==
    (pc = "built" /\ Documented(args))
      => (QuoteLeg(order) = RefQuoteUnits(args)
            /\ SharesLeg(order) = RefSharesUnits(args))

(* a limit BUY whose size loses decimals before the quote is computed *)
C6_Witness ==
    /\ pc = "built"
    /\ args.size = Lit(123455, -5)
    /\ args.price = Lit(70, -2)
    /\ order.side = BUY
    /\ order.order_type = "GTC"
    /\ order.maker_amount = Str(IntOf(861000))
    /\ order.taker_amount = Str(IntOf(1230000))

(* C7: a BUY has the quote as maker_amount, the shares as taker_amount and *)
(* the side code 0; a SELL has the shares as maker_amount, the quote as    *)
(* taker_amount and the side code 1, whatever the order type.              *)
C7_LegsBySide ==
    (pc = "built" /\ Documented(args))
      => /\ order.side = BUY
            => (order.maker_amount = RefQuoteUnits(args)
                  /\ order.taker_amount = RefSharesUnits(args)
                  /\ order.side_value = 0)
         /\ order.side = SELL
            => (order.maker_amount = RefSharesUnits(args)
                  /\ order.taker_amount = RefQuoteUnits(args)
                  /\ order.side_value = 1)

(* a market SELL: 5.56 shares offered for 0.6116 USDC *)
C7_Witness ==
    /\ pc = "built"
    /\ order.side = SELL
    /\ order.order_type = "FOK"
    /\ order.side_value = 1
    /\ order.maker_amount = Str(IntOf(5560000))
    /\ order.taker_amount = Str(IntOf(611600))

(* C8: two orders of one session with the same order class, side, price    *)
(* and size have the same amounts, whatever their other fields, the        *)
(* orders constructed before them and the salts drawn in between.          *)
C8_SameInputsSameAmounts ==
    \A i, j \in 1..Len(built) :
        (/\ OrderClass(built[i].args.order_type) = OrderClass(built[j].args.order_type)
         /\ built[i].args.side = built[j].args.side
         /\ built[i].args.price = built[j].args.price
         /\ built[i].args.size = built[j].args.size)
          => (built[i].maker_amount = built[j].maker_amount
                /\ built[i].taker_amount = built[j].taker_amount)

(* a GTC BUY was signed, then a GTD BUY of the same price and size with    *)
(* another nonce was constructed                                           *)
C8_Witness ==
    /\ Len(built) = 2
    /\ pc = "built"
    /\ built[1].args.order_type = "GTC"
    /\ built[2].args.order_type = "GTD"
    /\ built[1].args.side = BUY
    /\ built[2].args.side = BUY
    /\ built[1].args.nonce # built[2].args.nonce

(* the call of scenario 1: a limit (GTC) BUY at 0.70 of 1.47 shares *)
Scenario1 ==
    /\ pc = "built"
    /\ args.price = Lit(70, -2)
    /\ args.size = Lit(147, -2)
    /\ args.side = BUY
    /\ args.order_type = "GTC"

(* C9 as stated: scenario 1 yields maker_amount 10290000 and taker_amount  *)
(* 1470000.                                                                *)
C9_ScenarioAsStated ==
    Scenario1
      => (order.maker_amount = Str(IntOf(10290000))
            /\ order.taker_amount = Str(IntOf(1470000)))

(* C9: scenario 1 rounds the shares to 1.47, computes the quote 1.029 and  *)
(* yields maker_amount 1029000 (1.029 USDC in base units) and taker_amount *)
(* 1470000.                                                                *)
C9_Scenario ==
    Scenario1
      => (/\ RefShares(args) = FromLiteral(Lit(147, -2))
          /\ RefQuote(args) = FromLiteral(Lit(1029, -3))
          /\ order.maker_amount = Str(IntOf(1029000))
          /\ order.taker_amount = Str(IntOf(1470000)))

C9_Witness == Scenario1 /\ order.made /\ order.side_value = 0

(* the struct a reader of the payload hashes: decimal strings parsed, the  *)
(* side string mapped to its code, addresses in canonical form             *)
Reparsed(p) ==
    LET field ==
          [salt |-> p.salt,
           maker |-> ToChecksumAddress(p.maker).v,
           signer |-> ToChecksumAddress(p.signer).v,
           taker |-> ToChecksumAddress(p.taker).v,
           tokenId |-> ParseInt(p.tokenId).v,
           makerAmount |-> ParseInt(p.makerAmount).v,
           takerAmount |-> ParseInt(p.takerAmount).v,
           expiration |-> ParseInt(p.expiration).v,
           nonce |-> ParseInt(p.nonce).v,
           feeRateBps |-> ParseInt(p.feeRateBps).v,
           side |-> IntOf(IF p.side = BUY THEN 0 ELSE IF p.side = SELL THEN 1 ELSE 255),
           signatureType |-> p.signatureType]
    IN  [domain |-> ORDER_DOMAIN,
         struct |-> [i \in DOMAIN ORDER_TYPES |-> field[ORDER_TYPES[i].name]]]

(* C10: the payload of a signed order, parsed again, gives the struct that *)
(* was signed: the decimal strings parse to the integers hashed, salt and  *)
(* signatureType are the integers hashed, the side string maps to the code *)
(* hashed; so the digest of the payload is the digest signed and the       *)
(* signature recovers to the address of the signer.                        *)
C10_PayloadReproducesSigned ==
    pc = "signed"
      => /\ \A n \in {"tokenId", "makerAmount", "takerAmount", "expiration", "nonce",
                      "feeRateBps"} :
                ParseInt(payload.order[n]).err = "none"
         /\ Reparsed(payload.order) = message
         /\ Recover(payload.order.signature, Reparsed(payload.order)) = signer.address

(* a SELL with a token id written with leading zeros and a lower-case      *)
(* maker address has been signed                                           *)
C10_Witness ==
    /\ pc = "signed"
    /\ args.token_id = <<"0", "0", "7">>
    /\ args.maker = Addr("safe", "lower")
    /\ args.side = SELL
    /\ payload.order.tokenId = <<"7">>
    /\ payload.order.side = SELL

(* the field of the signed struct with the given name *)
SignedField(name) ==
    message.struct[CHOOSE i \in DOMAIN ORDER_TYPES : ORDER_TYPES[i].name = name]

SaltInRange(salt) ==
    /\ ~salt.neg
    /\ BCmp(salt.mag, BOne) >= 0
    /\ BCmp(salt.mag, BPow2(40)) < 0

(* C11: every order sign_order has signed has its salt in [1, 2^40 - 1],   *)
(* the zero address as taker and expiration 0, in the struct signed and in *)
(* the payload returned (where expiration is the decimal string "0").      *)
C11_SaltTakerExpiration ==
    pc = "signed"
      => /\ SaltInRange(SignedField("salt"))
         /\ SignedField("taker").acct = ZeroAddress.acct
         /\ SignedField("expiration") = IntOf(0)
         /\ SaltInRange(payload.order.salt)
         /\ payload.order.taker.acct = ZeroAddress.acct
         /\ payload.order.expiration = <<"0">>

(* orders have been signed with the least salt and with the greatest *)
C11_Witness ==
    /\ pc = "signed"
    /\ payload.order.salt \in {SaltLow, SaltHigh}
    /\ SignedField("salt") = SaltHigh
    /\ args.maker.acct # ZeroAddress.acct

(* C12: the payload of a signed order gives the side as the string "BUY"   *)
(* or "SELL" and the signed struct gives it as a code; the string is "BUY" *)
(* exactly when the code is 0 and "SELL" exactly when the code is 1, also  *)
(* when the caller wrote the side in lower case.                           *)
C12_SideStringMatchesCode ==
    pc = "signed"
      => /\ payload.order.side \in {BUY, SELL}
         /\ SignedField("side") \in {IntOf(0), IntOf(1)}
         /\ (payload.order.side = BUY <=> SignedField("side") = IntOf(0))
         /\ (payload.order.side = SELL <=> SignedField("side") = IntOf(1))

(* an order whose side the caller wrote in lower case has been signed *)
C12_Witness ==
    /\ pc = "signed"
    /\ args.side = <<"b", "u", "y">>
    /\ payload.order.side = BUY
    /\ SignedField("side") = IntOf(0)

(* the address the private key given derives: the one of the scalar its    *)
(* digits denote                                                           *)
KeyAddress == Addr(key[Len(key)], "checksum")

(* C13: in every signed order the signer field is the address derived from *)
(* the private key and the maker field is the maker the caller gave (in    *)
(* checksum form), in the struct signed and in the payload; in every auth  *)
(* message the address field is the address derived from the private key;  *)
(* and no sign_order fails because the maker differs from the signer: an   *)
(* order with a well-formed maker that sign_order refused before signing   *)
(* is refused with the signer as its maker too.                            *)
C13_SignerIsKeyHolder ==
    /\ message # NoMessage
         => /\ SignedField("signer") = KeyAddress
            /\ SignedField("maker") = Addr(args.maker.acct, "checksum")
            /\ payload.order.signer = KeyAddress
            /\ payload.order.maker = Addr(args.maker.acct, "checksum")
    /\ auth.message # NoMessage => auth.message.struct[1] = KeyAddress
    /\ (pc = "sign_failed" /\ signs = 0 /\ ToChecksumAddress(args.maker).err = "none")
         => SignOrderResult(signer, [order EXCEPT !.maker = signer.address],
                            SaltLow).err # "none"

(* an auth message and an order whose maker is not the signer have both    *)
(* been signed                                                             *)
C13_Witness ==
    /\ pc = "signed"
    /\ auth.message # NoMessage
    /\ args.maker.acct # signer.address.acct
    /\ SignedField("maker") # SignedField("signer")
    /\ auth.message.struct[1] = signer.address

(* the digest of a struct under a domain *)
Digest(domain, struct) == [domain |-> domain, struct |-> struct]

(* C14: the auth message is signed under the auth domain (ClobAuthDomain,  *)
(* no verifying contract) and the order under the order domain (Polymarket *)
(* CTF Exchange, chain 137, the exchange as verifying contract); the two   *)
(* domains differ, either struct has different digests under the two, and  *)
(* the signature of one path does not recover to the signer over the       *)
(* digest the other path would give the same struct or the other message.  *)
C14_DomainSeparation ==
    /\ AUTH_DOMAIN # ORDER_DOMAIN
    /\ auth.message # NoMessage
         => /\ auth.message.domain = AUTH_DOMAIN
            /\ auth.message.domain.name = "ClobAuthDomain"
            /\ "verifyingContract" \notin DOMAIN auth.message.domain
            /\ Digest(ORDER_DOMAIN, auth.message.struct) # auth.message
            /\ Recover(auth.signature, auth.message) = signer.address
            /\ Recover(auth.signature, Digest(ORDER_DOMAIN, auth.message.struct))
                 # signer.address
    /\ message # NoMessage
         => /\ message.domain = ORDER_DOMAIN
            /\ message.domain.name = "Polymarket CTF Exchange"
            /\ message.domain.chainId = 137
            /\ message.domain.verifyingContract
                 = "0x4bFb41d5B3570DeFd03C39a9A4D8dE6Bd8B8982E"
            /\ Digest(AUTH_DOMAIN, message.struct) # message
            /\ Recover(payload.order.signature, Digest(AUTH_DOMAIN, message.struct))
                 # signer.address
    /\ (auth.message # NoMessage /\ message # NoMessage)
         => /\ Recover(auth.signature, message) # signer.address
            /\ Recover(payload.order.signature, auth.message) # signer.address

(* an auth message and an order have been signed with the same key *)
C14_Witness ==
    /\ pc = "signed"
    /\ auth.message # NoMessage
    /\ auth.signature.by = payload.order.signature.by
    /\ auth.message.domain # message.domain

(* the requests the client has sent *)
Sends == SelectSeq(http.trace, LAMBDA e : e.ev = "send")

C16_FailureIsOneSignerError ==
    /\ pc = "sign_failed"
         => /\ err = "SignerError"
            /\ payload = NoPayload
            /\ message = NoMessage
            /\ signs \in {0, 1}
    /\ pc = "signed" => (err = "none" /\ signs = 1)
    /\ (/\ pc \in {"signed", "sign_failed"}
        /\ \/ ParseInt(args.token_id).err # "none"
           \/ ToChecksumAddress(args.maker).err # "none")
         => (pc = "sign_failed" /\ signs = 0)

(* wallet.sign_message has raised in a sign_order that reached it *)
C16_Witness ==
    /\ pc = "sign_failed"
    /\ signs = 1
    /\ err = "SignerError"
    /\ ParseInt(args.token_id).err = "none"

(* the key strings that are valid key material: the digits of a scalar,    *)
(* bare or after one "0x"                                                  *)
ValidKeyStrings == {<<k>> : k \in KeyHex} \cup {<<"0x", k>> : k \in KeyHex}

(* C17: OrderSigner(key) with a key that is not valid key material raises  *)
(* (ValueError) and leaves no signer: no address, and nothing is ever      *)
(* signed; a valid key gives the same signer written with or without the   *)
(* leading "0x".                                                           *)
C17_InvalidKeyNoSigner ==
    /\ key \notin ValidKeyStrings
         => /\ pc \in {"key", "no_signer"}
            /\ signer = NoSigner
            /\ auth = NoAuth
            /\ message = NoMessage
    /\ pc = "no_signer" => (err = "ValueError" /\ key \notin ValidKeyStrings)
    /\ \A k \in KeyHex :
          (key \in {<<k>>, <<"0x", k>>} /\ pc # "key")
            => (pc # "no_signer" /\ signer = OrderSignerOf(k))

(* a key with a prefix has been refused, the prefix being there twice *)
C17_Witness ==
    /\ pc = "no_signer"
    /\ StartsWith0x(key)
    /\ key[Len(key)] \in KeyHex
    /\ signer = NoSigner

(* the exchanges that brought a response with a success status *)
Successes == {"ok_empty", "ok_json", "ok_text"}

FirstSuccess == CHOOSE i \in DOMAIN Sends :
                   /\ Sends[i].outcome \in Successes
                   /\ \A j \in 1..(i - 1) : Sends[j].outcome \notin Successes

(* C18: a call of _request with retry_count >= 0 ends having sent at most  *)
(* retry_count requests; when an attempt was answered with success the     *)
(* call returns the response of the first such attempt and that request is *)
(* the last one sent; when retry_count attempts all failed with a          *)
(* transport or HTTP status error the call raises ApiError, after exactly  *)
(* retry_count requests.                                                   *)
C18_ReturnsFirstSuccess ==
    /\ Len(Sends) <= http.retry_count
    /\ http.attempt <= http.retry_count
    /\ pc \in {"returned", "raised"}
         => /\ (\E i \in DOMAIN Sends : Sends[i].outcome \in Successes)
                 => /\ pc = "returned"
                    /\ http.result.attempt = Sends[FirstSuccess].attempt
                    /\ FirstSuccess = Len(Sends)
            /\ pc = "returned" => Sends[Len(Sends)].outcome \in Successes
            /\ (/\ Supported(http.method)
                /\ \A i \in DOMAIN Sends :
                      Sends[i].outcome \in {"transport_error", "http_error"})
                 => /\ pc = "raised"
                    /\ err = "ApiError"
                    /\ Len(Sends) = http.retry_count

(* C19: in the trace of a call of _request the first event is the request  *)
(* of attempt 0 (no wait comes first); a wait comes only right after the   *)
(* request of a failed attempt k that is not the last one allowed and      *)
(* lasts 2^k seconds; every later request, of attempt k + 1, comes right   *)
(* after the wait of attempt k; and the call does not raise from a wait:   *)
(* after the last failed attempt ApiError is raised with no wait between.  *)
C19_BackoffOrdering ==
    /\ http.trace # << >>
         => (http.trace[1].ev = "send" /\ http.trace[1].attempt = 0)
    /\ \A i \in DOMAIN http.trace :
          /\ http.trace[i].ev = "sleep"
               => /\ i > 1
                  /\ http.trace[i - 1].ev = "send"
                  /\ http.trace[i - 1].attempt = http.trace[i].attempt
                  /\ http.trace[i - 1].outcome \notin {"ok_empty", "ok_json"}
                  /\ http.trace[i].secs = 2 ^ http.trace[i].attempt
                  /\ http.trace[i].attempt < http.retry_count - 1
          /\ (http.trace[i].ev = "send" /\ i > 1)
               => /\ http.trace[i - 1].ev = "sleep"
                  /\ http.trace[i - 1].attempt = http.trace[i].attempt - 1
    /\ (pc = "raised" /\ http.trace # << >>)
         => http.trace[Len(http.trace)].ev = "send"
    /\ (pc = "raised" /\ err = "ApiError" /\ http.trace # << >>)
         => http.trace[Len(http.trace)].attempt = http.retry_count - 1
    /\ (pc = "requesting" /\ http.trace # << >>)
         => IF http.attempt < http.retry_count
            THEN /\ http.trace[Len(http.trace)].ev = "sleep"
                 /\ http.trace[Len(http.trace)].secs = 2 ^ (http.attempt - 1)
            ELSE http.trace[Len(http.trace)].ev = "send"

(* a call has failed three times, waited 1 and 2 seconds, and raised *)
C19_Witness ==
    /\ pc = "raised"
    /\ err = "ApiError"
    /\ Len(http.trace) = 5
    /\ http.trace[2].ev = "sleep" /\ http.trace[2].secs = 1
    /\ http.trace[4].ev = "sleep" /\ http.trace[4].secs = 2
    /\ http.trace[5].ev = "send"

(* C20: a call of _request with a method that is not GET, POST or DELETE   *)
(* in any letter case ends by raising ApiError, having sent no request,    *)
(* waited for nothing and caught no error: the trace is empty, the attempt *)
(* counter is 0 and no error was kept for a retry.                         *)
C20_UnsupportedMethodRaises ==
    (pc # "client" /\ StrUpper(http.method) \notin {GET, POST, DELETE})
      => /\ http.trace = << >>
         /\ http.attempt = 0
         /\ http.last_error = "None"
         /\ pc \in {"requesting", "raised"}
         /\ pc = "raised" => (err = "ApiError" /\ http.state = "ApiError")

(* a PUT has been refused by a client that allows three attempts *)
C20_Witness ==
    /\ pc = "raised"
    /\ err = "ApiError"
    /\ http.method = <<"P", "U", "T">>
    /\ http.retry_count = DefaultRetryCount
    /\ http.trace = << >>

(* the arguments with the order type replaced by the documented type of    *)
(* its class: FOK for FOK and FAK, GTC for every other string              *)
AsClass(a) ==
    [a EXCEPT !.order_type = IF a.order_type \in MarketTypes THEN "FOK" ELSE "GTC"]

(* C24: an Order that is constructed has the amounts of the MARKET         *)
(* ceilings when its order_type is exactly "FOK" or "FAK" and the amounts  *)
(* of the LIMIT ceilings for every other string (GTC, GTD, lower case,     *)
(* unknown); and the order type is never the reason of a failure: an       *)
(* Order of another type that is refused has a bad side, price or size,    *)
(* or is refused with the same error as a GTC order.                       *)
C24_ClassByExactType ==
    /\ pc = "built"
         => /\ QuoteLeg(order) = RefQuoteUnits(AsClass(args))
            /\ SharesLeg(order) = RefSharesUnits(AsClass(args))
            /\ order.order_type = args.order_type
    /\ (pc = "rejected" /\ args.order_type \notin MarketTypes)
         => \/ ~ValidSide(args.side)
            \/ ~LitInUnit(args.price)
            \/ ~LitPositive(args.size)
            \/ PostInit(Fields(AsClass(args))).err = err

(* a BUY of type "fok" in lower case has the amounts of a limit order *)
C24_Witness ==
    /\ pc = "built"
    /\ args.order_type = "fok"
    /\ args.side = BUY
    /\ args.price = Lit(70, -2)
    /\ args.size = Lit(123455, -5)
    /\ order.maker_amount = Str(IntOf(861000))
    /\ order.taker_amount = Str(IntOf(1230000))

(* the arguments of a call of sign_order_dict read as those of a limit     *)
(* order                                                                   *)
AsLimit(a) ==
    [price |-> a.price, size |-> a.size, side |-> a.side, order_type |-> "GTC"]

(* C23: the order sign_order_dict constructs has order type GTC and        *)
(* signature type 2 whatever the arguments: its amounts are those of the   *)
(* LIMIT ceilings (the quote a multiple of 10^2 base units, the shares of  *)
(* 10^4), and what it signs and returns has signatureType 2 and these      *)
(* amounts.                                                                *)
C23_DictIsLimitSafe ==
    /\ order.made
         => /\ order.order_type = "GTC"
            /\ order.signature_type = 2
            /\ QuoteLeg(order) = RefQuoteUnits(AsLimit(args))
            /\ SharesLeg(order) = RefSharesUnits(AsLimit(args))
            /\ MultipleOfPow10(QuoteLeg(order), 2)
            /\ MultipleOfPow10(SharesLeg(order), 4)
    /\ pc = "signed"
         => /\ SignedField("signatureType") = IntOf(2)
            /\ payload.order.signatureType = IntOf(2)
            /\ payload.order.makerAmount = order.maker_amount
            /\ payload.order.takerAmount = order.taker_amount
            /\ SignedField("makerAmount") = ParseInt(order.maker_amount).v
            /\ SignedField("takerAmount") = ParseInt(order.taker_amount).v

(* a BUY of 1.23455 shares has been signed with the shares cut to 1.23 *)
C23_Witness ==
    /\ pc = "signed"
    /\ args.size = Lit(123455, -5)
    /\ args.price = Lit(70, -2)
    /\ args.side = BUY
    /\ payload.order.makerAmount = Str(IntOf(861000))
    /\ payload.order.takerAmount = Str(IntOf(1230000))
    /\ payload.order.signatureType = IntOf(2)

(* the client has no builder credentials that are configured *)
NoBuilderCreds == http.builder_creds = None \/ ~http.builder_creds.configured

(* C21: an operation of the RelayerClient called without configured        *)
(* builder credentials raises AuthenticationError with no request sent and *)
(* no call of _request begun; an operation of the ClobClient without them  *)
(* goes on: it raises no AuthenticationError, its request is sent, and     *)
(* every request it sends has no builder header.                           *)
C21_RelayerNeedsCredentials ==
    /\ (http.kind = "relayer" /\ NoBuilderCreds /\ pc # "client")
         => /\ pc = "raised"
            /\ err = "AuthenticationError"
            /\ http.trace = << >>
            /\ http.state = "idle"
    /\ (http.kind = "clob" /\ NoBuilderCreds)
         => /\ err # "AuthenticationError"
            /\ pc \in {"returned", "raised"} => Len(Sends) >= 1
            /\ \A i \in DOMAIN Sends :
                  Sends[i].headers = RequestHeaders(NoHeaders)

(* a RelayerClient whose credentials are there but not configured has      *)
(* refused an operation                                                    *)
C21_Witness ==
    /\ http.kind = "relayer"
    /\ http.builder_creds # None
    /\ ~http.builder_creds.configured
    /\ pc = "raised"
    /\ err = "AuthenticationError"

(* C22: all the requests of one call of post_order have the same method,   *)
(* body and headers: the body is the payload sign_order returned (its salt *)
(* and signature those of the one signing made), the builder headers carry *)
(* the timestamp read before the first attempt though the clock has moved  *)
(* on, and the HMAC is the one over that timestamp and body; the order can *)
(* be sent retry_count times.                                              *)
C22_RetriesResendSameRequest ==
    /\ Len(Sends) <= http.retry_count
    /\ \A i \in DOMAIN Sends :
          /\ Sends[i].method = Sends[1].method
          /\ Sends[i].data = Sends[1].data
          /\ Sends[i].headers = Sends[1].headers
          /\ Sends[i].data.order = payload.order
          /\ Sends[i].data.order.salt = SignedField("salt")
          /\ Sends[i].data.order.signature = SignMessage(signer.wallet, message)
          /\ signs = 1
          /\ Configured(http.builder_creds)
               => /\ Sends[i].headers.extra.POLY_BUILDER_TIMESTAMP
                       = Str(IntOf(StartTime))
                  /\ Sends[i].headers.extra.POLY_BUILDER_SIGNATURE.message
                       = <<Str(IntOf(StartTime)), POST, "/order",
                           JsonDumps(Sends[i].data)>>

(* a signed order has been sent three times with builder headers, the      *)
(* clock three seconds on                                                  *)
C22_Witness ==
    /\ Len(Sends) = 3
    /\ Configured(http.builder_creds)
    /\ http.time = StartTime + 3
    /\ Sends[3].data.order = payload.order
    /\ Sends[3].headers = Sends[1].headers

====
